---- MODULE Spec2Model ----
(***************************************************************************)
(* LuminaShot: the window-selection reactive loop of src/main.rs           *)
(* (window_mode and its helpers) together with the part of main that       *)
(* consumes its result, and the compositor / selector / kill helper the    *)
(* loop talks to.                                                          *)
(*                                                                         *)
(* Strings are sequences of one-character strings, so that formatting,     *)
(* joining, splitting and trimming are computed and not assumed.           *)
(***************************************************************************)
EXTENDS Integers, Sequences, FiniteSets, TLC

\* ------------------------------------------------------------- bounds
\* The compositor state (active workspace, client list) changes at most
\* this many times during one run.
MaxEnvChanges == 2
\* window_mode starts at most this many iterations of its loop.
MaxAttempts == 2

\* ---------------------------------------------------- input domains
\* Workspace ids the compositor reports (HyprlandWorkspace.id).
WorkspaceIds == {3, 4}
\* Client addresses (HyprlandClient.address), one per possible client, in
\* the order the compositor hands them out.
AddressPool == << <<"a">>, <<"b">> >>
Addresses == {AddressPool[i] : i \in 1..Len(AddressPool)}
\* Positions and sizes a client can have (HyprlandClient.at / .size).
Geoms == << [at |-> <<0, 0>>, size |-> <<800, 600>>],
            [at |-> <<-12, 40>>, size |-> <<105, 7>>] >>
GeomSet == {Geoms[i] : i \in 1..Len(Geoms)}

\* --------------------------------------------------------- strings
Digits == <<"0", "1", "2", "3", "4", "5", "6", "7", "8", "9">>

RECURSIVE NatToDec(_)
NatToDec(n) ==
    IF n < 10 THEN <<Digits[n + 1]>>
    ELSE NatToDec(n \div 10) \o <<Digits[(n % 10) + 1]>>

\* Display of an i32 as format!("{}") prints it.
IntToDec(n) == IF n < 0 THEN <<"-">> \o NatToDec(-n) ELSE NatToDec(n)

\* format!("{},{} {}x{}", at.0, at.1, size.0, size.1)
format_geometry(at, size) ==
    IntToDec(at[1]) \o <<",">> \o IntToDec(at[2]) \o <<" ">> \o
    IntToDec(size[1]) \o <<"x">> \o IntToDec(size[2])

\* format!("{},{} {}x{} {}", w.at.0, w.at.1, w.size.0, w.size.1, w.address)
format_target(w) == format_geometry(w.at, w.size) \o <<" ">> \o w.address

RECURSIVE join(_, _)
\* Vec<String>::join(sep)
join(strs, sep) ==
    IF Len(strs) = 0 THEN <<>>
    ELSE IF Len(strs) = 1 THEN strs[1]
    ELSE strs[1] \o sep \o join(Tail(strs), sep)

\* windows.iter().map(format!(..)).collect::<Vec<_>>().join("\n")
format_slurp_input(ws) ==
    join([i \in 1..Len(ws) |-> format_target(ws[i])], <<"\n">>)

IsWhitespace(c) == c \in {" ", "\n", "\t", "\r"}

RECURSIVE TrimStart(_)
TrimStart(s) ==
    IF Len(s) > 0 /\ IsWhitespace(s[1]) THEN TrimStart(Tail(s)) ELSE s

RECURSIVE TrimEnd(_)
TrimEnd(s) ==
    IF Len(s) > 0 /\ IsWhitespace(s[Len(s)])
    THEN TrimEnd(SubSeq(s, 1, Len(s) - 1)) ELSE s

\* str::trim
trim(s) == TrimEnd(TrimStart(s))

\* ------------------------------------------- the selector (slurp -r -f %l)
RECURSIVE SplitOn(_, _, _)
\* s split at every occurrence of the character c; acc is the piece in progress.
SplitOn(s, c, acc) ==
    IF Len(s) = 0 THEN <<acc>>
    ELSE IF s[1] = c THEN <<acc>> \o SplitOn(Tail(s), c, <<>>)
    ELSE SplitOn(Tail(s), c, Append(acc, s[1]))

\* The lines slurp reads from its standard input.
SlurpLines(input) == IF Len(input) = 0 THEN <<>> ELSE SplitOn(input, "\n", <<>>)

RECURSIVE DropThrough(_, _)
\* What follows the first occurrence of the character c in s.
DropThrough(s, c) ==
    IF Len(s) = 0 THEN <<>>
    ELSE IF s[1] = c THEN Tail(s)
    ELSE DropThrough(Tail(s), c)

\* The label of a predefined box "x,y wxh label": the text after the second
\* space, which is what the format %l prints for the chosen box.
SlurpLabel(line) == DropThrough(DropThrough(line, " "), " ")

\* ------------------------------------------------------------ state
VARIABLES
    \* the compositor
    active,                 \* id of the active workspace
    clients,                \* client list in the order hyprctl reports it
    env_changes,            \* number of compositor changes so far
    \* main / window_mode
    pc,                     \* position of the main task
    cli,                    \* Cli { copy, save }
    initial_workspace_id,   \* baseline of the current iteration
    windows,                \* snapshot of the current iteration
    slurp_input,            \* target list fed to the selector
    selected_address,       \* trimmed stdout of a successful selector
    outcome,                \* how the current iteration's attempt ended
    result,                 \* what window_mode returned
    error,                  \* the error main exits with
    effects,                \* collaborators main has invoked
    \* operating system / runtime
    procs,                  \* selector subprocesses, indexed by spawn order
    monitors,               \* watchers, indexed by start order
    kill_log,               \* kill helper invocations: <<pid, how it ended>>
    hyprctl                 \* Output of the hyprctl run of the main task's
                            \* latest step, <<>> if that step ran none

vars == <<active, clients, env_changes, pc, cli, initial_workspace_id,
          windows, slurp_input, selected_address, outcome, result, error,
          effects, procs, monitors, kill_log, hyprctl>>

env_vars == <<active, clients, env_changes>>
loop_vars == <<initial_workspace_id, windows, slurp_input, selected_address,
               outcome>>
main_vars == <<cli, result, error, effects>>

\* HyprlandClient, restricted to the fields window_mode reads.
ClientRecs ==
    [address : Addresses, at : {g.at : g \in GeomSet},
     size : {g.size : g \in GeomSet}, workspace : WorkspaceIds,
     hidden : BOOLEAN]

\* Client lists the compositor can start with: the first n addresses in
\* order, every window at its first geometry, on any workspace, hidden or not.
InitialClientLists ==
    {cs \in UNION {[1..n -> {c \in ClientRecs :
                                c.at = Geoms[1].at /\ c.size = Geoms[1].size}]
                   : n \in 0..Len(AddressPool)} :
        \A i \in 1..Len(cs) : cs[i].address = AddressPool[i]}

\* Outcome of one hyprctl invocation: whether the process could be run, its
\* exit status, and whether its stdout deserialises into the expected type.
QueryOutcomes ==
    {[invoked |-> FALSE, exit_ok |-> FALSE, parses |-> FALSE]} \cup
    {[invoked |-> TRUE, exit_ok |-> e, parses |-> p] : e, p \in BOOLEAN}

NoResult == [kind |-> "Unset", geom |-> <<>>]

Init ==
    /\ active \in WorkspaceIds
    /\ clients \in InitialClientLists
    /\ env_changes = 0
    /\ pc = "main"
    /\ cli = [copy |-> FALSE, save |-> FALSE]
    /\ initial_workspace_id = 0
    /\ windows = <<>>
    /\ slurp_input = <<>>
    /\ selected_address = <<>>
    /\ outcome = "none"
    /\ result = NoResult
    /\ error = "none"
    /\ effects = {}
    /\ procs = <<>>
    /\ monitors = <<>>
    /\ kill_log = <<>>
    /\ hyprctl = <<>>

\* ------------------------------------------------- compositor queries
\* get_active_workspace_id: `.output().await?` fails only when hyprctl cannot
\* be run, serde_json::from_slice fails when stdout does not parse; the exit
\* status is not looked at.
get_active_workspace_id(q) ==
    IF q.invoked /\ q.parses THEN [ok |-> TRUE, id |-> active]
    ELSE [ok |-> FALSE, id |-> 0]

\* The filter without its workspace test.
visible_clients_everywhere(all_clients, workspace_id) ==
    SelectSeq(all_clients, LAMBDA c : ~c.hidden)

\* The filter without its visibility test.
visible_clients_on_workspace(all_clients, workspace_id) ==
    SelectSeq(all_clients, LAMBDA c : c.workspace = workspace_id)

\* .filter(|c| !c.hidden && c.workspace.id == workspace_id)
visible_clients(all_clients, workspace_id) ==
    SelectSeq(all_clients,
              LAMBDA c : ~c.hidden /\ c.workspace = workspace_id)

get_windows_on_workspace(q, workspace_id) ==
    IF q.invoked /\ q.parses
    THEN [ok |-> TRUE, windows |-> visible_clients(clients, workspace_id)]
    ELSE [ok |-> FALSE, windows |-> <<>>]

RECURSIVE find_client(_, _)
\* for client in all_clients { if client.address == address { return ... } }
find_client(all_clients, address) ==
    IF Len(all_clients) = 0 THEN [found |-> FALSE, geom |-> <<>>]
    ELSE IF all_clients[1].address = address
         THEN [found |-> TRUE,
               geom |-> format_geometry(all_clients[1].at, all_clients[1].size)]
         ELSE find_client(Tail(all_clients), address)

\* Resolution that reuses the snapshot taken before the selector ran.
get_geometry_from_snapshot(q, address) ==
    IF q.invoked /\ q.parses
    THEN LET r == find_client(windows, address) IN
         IF r.found THEN [ok |-> TRUE, geom |-> r.geom, err |-> "none"]
         ELSE [ok |-> FALSE, geom |-> <<>>, err |-> "ResolutionError"]
    ELSE [ok |-> FALSE, geom |-> <<>>, err |-> "QueryError"]

\* Resolution that falls back to the snapshot when the window is gone.
get_geometry_or_snapshot(q, address) ==
    IF q.invoked /\ q.parses
    THEN LET r == find_client(clients, address) IN
         IF r.found THEN [ok |-> TRUE, geom |-> r.geom, err |-> "none"]
         ELSE [ok |-> TRUE, geom |-> find_client(windows, address).geom,
               err |-> "none"]
    ELSE [ok |-> FALSE, geom |-> <<>>, err |-> "QueryError"]

get_geometry_for_address(q, address) ==
    IF q.invoked /\ q.parses
    THEN LET r == find_client(clients, address) IN
         IF r.found THEN [ok |-> TRUE, geom |-> r.geom, err |-> "none"]
         ELSE [ok |-> FALSE, geom |-> <<>>, err |-> "ResolutionError"]
    ELSE [ok |-> FALSE, geom |-> <<>>, err |-> "QueryError"]

\* ------------------------------------------------------ the compositor
\* The compositor and the selectors are followed while window_mode runs;
\* what they do after it has returned is observed by nothing in the program.
InWindowMode ==
    pc \in {"snapshot", "windows", "empty_wait", "spawn", "write",
            "start_monitor", "race", "kill", "resolve"}

EnvStep ==
    /\ InWindowMode
    /\ env_changes < MaxEnvChanges
    /\ env_changes' = env_changes + 1

\* The user (or anything else) switches to another workspace.
WorkspaceChange ==
    /\ EnvStep
    /\ \E w \in WorkspaceIds \ {active} : active' = w
    /\ UNCHANGED <<hyprctl, clients, pc, loop_vars, main_vars, procs, monitors, kill_log>>

\* A window is moved and resized.
WindowMove ==
    /\ EnvStep
    /\ \E i \in 1..Len(clients), g \in GeomSet :
          /\ <<clients[i].at, clients[i].size>> # <<g.at, g.size>>
          /\ clients' = [clients EXCEPT ![i].at = g.at, ![i].size = g.size]
    /\ UNCHANGED <<hyprctl, active, pc, loop_vars, main_vars, procs, monitors, kill_log>>

\* A window is closed.
WindowClose ==
    /\ EnvStep
    /\ \E i \in 1..Len(clients) :
          clients' = SubSeq(clients, 1, i - 1) \o
                     SubSeq(clients, i + 1, Len(clients))
    /\ UNCHANGED <<hyprctl, active, pc, loop_vars, main_vars, procs, monitors, kill_log>>

\* A window is opened; the compositor reports it last.
WindowOpen ==
    /\ EnvStep
    /\ \E c \in ClientRecs :
          /\ \A i \in 1..Len(clients) : clients[i].address # c.address
          /\ c.at = Geoms[1].at /\ c.size = Geoms[1].size
          /\ clients' = Append(clients, c)
    /\ UNCHANGED <<hyprctl, active, pc, loop_vars, main_vars, procs, monitors, kill_log>>

\* A window is hidden or shown again (e.g. in a group), or sent to another
\* workspace.
WindowRehome ==
    /\ EnvStep
    /\ \E i \in 1..Len(clients), w \in WorkspaceIds, h \in BOOLEAN :
          /\ <<w, h>> # <<clients[i].workspace, clients[i].hidden>>
          /\ clients' = [clients EXCEPT ![i].workspace = w, ![i].hidden = h]
    /\ UNCHANGED <<hyprctl, active, pc, loop_vars, main_vars, procs, monitors, kill_log>>

\* ------------------------------------------------ selector subprocesses
\* The user picks the i-th box of a selector that has read its target list:
\* it prints the box's label and exits successfully.
UserSelect ==
    /\ InWindowMode
    /\ \E p \in 1..Len(procs) :
          /\ procs[p].state = "running"
          /\ procs[p].stdin_closed
          /\ ~procs[p].signalled
          /\ \E i \in 1..Len(SlurpLines(procs[p].stdin)) :
                procs' = [procs EXCEPT
                            ![p].state = "exited",
                            ![p].success = TRUE,
                            ![p].stdout = SlurpLabel(SlurpLines(procs[p].stdin)[i])]
    /\ UNCHANGED <<hyprctl, env_vars, pc, loop_vars, main_vars, monitors, kill_log>>

\* The user presses escape (or the selector fails on its own): non-success
\* exit, nothing printed.
UserCancel ==
    /\ InWindowMode
    /\ \E p \in 1..Len(procs) :
          /\ procs[p].state = "running"
          /\ ~procs[p].signalled
          /\ procs' = [procs EXCEPT ![p].state = "exited"]
    /\ UNCHANGED <<hyprctl, env_vars, pc, loop_vars, main_vars, monitors, kill_log>>

\* A selector that was sent SIGTERM dies of it.
ProcTerminate ==
    /\ InWindowMode
    /\ \E p \in 1..Len(procs) :
          /\ procs[p].state = "running"
          /\ procs[p].signalled
          /\ procs' = [procs EXCEPT ![p].state = "exited"]
    /\ UNCHANGED <<hyprctl, env_vars, pc, loop_vars, main_vars, monitors, kill_log>>

\* ------------------------------------------------------------ watcher
NewMonitor(initial_id, raced) ==
    [initial_id |-> initial_id, state |-> "running", current_id |-> 0,
     raced |-> raced]

\* A watcher that returns when its query fails.
monitor_returning_on_error(m, r) ==
    IF r.ok /\ r.id = m.initial_id THEN m
    ELSE [m EXCEPT !.state = "finished", !.current_id = r.id]

\* A watcher that gives up with an error when its query fails.
monitor_failing_on_error(m, r) ==
    IF r.ok
    THEN IF r.id # m.initial_id
         THEN [m EXCEPT !.state = "finished", !.current_id = r.id]
         ELSE m
    ELSE [m EXCEPT !.state = "failed"]

\* One round of the loop of monitor_workspace_changes_by_polling, after the
\* sleep: r is what get_active_workspace_id returned.
\*   if let Ok(current_id) = r { if current_id != initial_id { return Ok(()) } }
\* current_id keeps the id the watcher returned on; a round that does not
\* return leaves nothing behind.
monitor_workspace_changes_by_polling(m, r) ==
    IF r.ok
    THEN IF r.id # m.initial_id
         THEN [m EXCEPT !.state = "finished", !.current_id = r.id]
         ELSE m
    ELSE m

\* A watcher that is still scheduled wakes up and polls the compositor. A
\* spawned watcher is a task of its own; the watcher of the empty-window path
\* is awaited in place, so its hyprctl runs are the main task's.
MonitorPoll ==
    /\ \E i \in 1..Len(monitors), q \in QueryOutcomes :
          /\ monitors[i].state = "running"
          /\ monitors' = [monitors EXCEPT ![i] =
                monitor_workspace_changes_by_polling(@, get_active_workspace_id(q))]
          /\ hyprctl' = IF monitors[i].raced THEN hyprctl ELSE <<q>>
    /\ UNCHANGED <<env_vars, pc, loop_vars, main_vars, procs, kill_log>>

\* The handle dropped without abort: a spawned task is detached and runs on.
abort_detached(m) == m

\* JoinHandle::abort: the task is not scheduled again; no effect on a task
\* that has finished.
abort(m) == IF m.state = "running" THEN [m EXCEPT !.state = "aborted"] ELSE m

\* ------------------------------------------------------------ main
\* An error leaves window_mode through `?` and main through `?` at line 92.
ModeFails(kind) ==
    /\ pc' = "exit_err"
    /\ error' = kind
    /\ result' = [kind |-> "Err", geom |-> <<>>]

\* Cli::parse and the default output flag; only Mode::Window is modelled.
MainStart ==
    /\ pc = "main"
    /\ \E copy, save \in BOOLEAN :
          cli' = [copy |-> copy, save |-> IF ~copy /\ ~save THEN TRUE ELSE save]
    /\ pc' = "snapshot"
    /\ UNCHANGED <<env_vars, loop_vars, result, error, effects, procs,
                   monitors, kill_log>>
    /\ hyprctl' = <<>>

\* ------------------------------------------------------------ window_mode
\* let initial_workspace_id = get_active_workspace_id().await?;
SnapshotWorkspace ==
    /\ pc = "snapshot"
    /\ Len(monitors) < MaxAttempts
    /\ \E q \in QueryOutcomes :
          LET r == get_active_workspace_id(q) IN
          hyprctl' = <<q>> /\
          IF r.ok
          THEN /\ initial_workspace_id' = r.id
               /\ pc' = "windows"
               /\ UNCHANGED <<result, error>>
          ELSE /\ ModeFails("QueryError")
               /\ UNCHANGED initial_workspace_id
    /\ windows' = <<>>
    /\ slurp_input' = <<>>
    /\ selected_address' = <<>>
    /\ outcome' = "none"
    /\ UNCHANGED <<env_vars, cli, effects, procs, monitors, kill_log>>

\* windows.is_empty(), always false: the empty check left out.
is_empty_never(ws) == FALSE

\* windows.is_empty()
is_empty(ws) == Len(ws) = 0

NewProc ==
    [state |-> "running", signalled |-> FALSE, stdin |-> <<>>,
     stdin_closed |-> FALSE, success |-> FALSE, stdout |-> <<>>]

\* let windows = get_windows_on_workspace(initial_workspace_id).await?;
\* if windows.is_empty() { monitor_workspace_changes_by_polling(..) ... }
\* let slurp_input = ...; Command::new("slurp")...spawn().context(..)?
\* Runs from the completion of the clients query to the next await: the
\* watcher call of the empty path, or the write to the selector's stdin.
SnapshotWindows ==
    /\ pc = "windows"
    /\ \E q \in QueryOutcomes, spawned \in BOOLEAN :
          LET r == get_windows_on_workspace(q, initial_workspace_id) IN
          hyprctl' = <<q>> /\
          IF ~r.ok
          THEN /\ ~spawned
               /\ ModeFails("QueryError")
               /\ UNCHANGED <<windows, slurp_input, monitors, procs>>
          ELSE IF is_empty(r.windows)
          THEN /\ ~spawned
               /\ windows' = r.windows
               /\ monitors' = Append(monitors,
                                     NewMonitor(initial_workspace_id, FALSE))
               /\ pc' = "empty_wait"
               /\ UNCHANGED <<slurp_input, procs, result, error>>
          ELSE /\ windows' = r.windows
               /\ slurp_input' = format_slurp_input(r.windows)
               /\ UNCHANGED monitors
               /\ IF spawned
                  THEN /\ procs' = Append(procs, NewProc)
                       /\ pc' = "write"
                       /\ UNCHANGED <<result, error>>
                  ELSE /\ ModeFails("SpawnError")
                       /\ UNCHANGED procs
    /\ UNCHANGED <<env_vars, cli, effects, initial_workspace_id,
                   selected_address, outcome, kill_log>>

\* monitor_workspace_changes_by_polling(initial_workspace_id).await?; continue;
EmptyWaitReturn ==
    /\ pc = "empty_wait"
    /\ monitors[Len(monitors)].state \in {"finished", "failed"}
    /\ IF monitors[Len(monitors)].state = "finished"
       THEN /\ pc' = "snapshot"
            /\ outcome' = "Restart"
            /\ UNCHANGED <<result, error>>
       ELSE /\ ModeFails("QueryError")
            /\ UNCHANGED outcome
    /\ UNCHANGED <<env_vars, cli, effects, initial_workspace_id, windows,
                   slurp_input, selected_address, procs, monitors, kill_log>>
    /\ hyprctl' = <<>>

\* The watcher spawned before the target list is written: it is there whether
\* the write succeeds or not.
WriteStdinAfterMonitor ==
    /\ pc = "write"
    /\ monitors' = Append(monitors, NewMonitor(initial_workspace_id, TRUE))
    /\ \E written \in BOOLEAN :
          IF written
          THEN /\ procs[Len(procs)].state = "running"
               /\ procs' = [procs EXCEPT ![Len(procs)].stdin = slurp_input,
                                         ![Len(procs)].stdin_closed = TRUE]
               /\ pc' = "race"
               /\ UNCHANGED <<result, error>>
          ELSE /\ procs' = [procs EXCEPT ![Len(procs)].stdin_closed = TRUE]
               /\ ModeFails("WriteError")
    /\ UNCHANGED <<env_vars, cli, effects, loop_vars, kill_log>>
    /\ hyprctl' = <<>>

\* if let Some(mut stdin) = slurp_process.stdin.take() {
\*     stdin.write_all(slurp_input.as_bytes()).await?; }
\* The pipe is closed when stdin goes out of scope, written or not; a write to
\* a selector that has already exited fails.
\* let slurp_pid = slurp_process.id().context(..)?;  (Some: the child has not
\* been awaited yet; the pid is the index in procs)
\* let mut monitor_handle = tokio::spawn(async move { monitor_..(id).await });
WriteStdin ==
    /\ pc = "write"
    /\ \E written \in BOOLEAN :
          IF written
          THEN /\ procs[Len(procs)].state = "running"
               /\ procs' = [procs EXCEPT ![Len(procs)].stdin = slurp_input,
                                         ![Len(procs)].stdin_closed = TRUE]
               /\ monitors' = Append(monitors,
                                     NewMonitor(initial_workspace_id, TRUE))
               /\ pc' = "race"
               /\ UNCHANGED <<result, error>>
          ELSE /\ procs' = [procs EXCEPT ![Len(procs)].stdin_closed = TRUE]
               /\ ModeFails("WriteError")
               /\ UNCHANGED monitors
    /\ UNCHANGED <<env_vars, cli, effects, loop_vars, kill_log>>
    /\ hyprctl' = <<>>

\* tokio::select!, first branch: slurp_process.wait_with_output() is ready.
\*   monitor_handle.abort(); let output = slurp_result?;
\*   success: selected_address = from_utf8(stdout)?.trim()  (the label is
\*            text of the target list, so it is valid UTF-8)
\*   otherwise: return Ok(None)
RaceSlurp ==
    /\ pc = "race"
    /\ procs[Len(procs)].state = "exited"
    /\ monitors' = [monitors EXCEPT ![Len(monitors)] = abort(@)]
    /\ IF procs[Len(procs)].success
       THEN /\ selected_address' = trim(procs[Len(procs)].stdout)
            /\ pc' = "resolve"
            /\ UNCHANGED <<outcome, result>>
       ELSE /\ outcome' = "Cancelled"
            /\ result' = [kind |-> "None", geom |-> <<>>]
            /\ pc' = "returned"
            /\ UNCHANGED selected_address
    /\ UNCHANGED <<env_vars, cli, error, effects, initial_workspace_id,
                   windows, slurp_input, procs, kill_log>>
    /\ hyprctl' = <<>>

\* The same branch when waiting for the selector or reading its output
\* fails: the watcher is aborted first, then `slurp_result?` returns the error.
RaceSlurpErr ==
    /\ pc = "race"
    /\ monitors' = [monitors EXCEPT ![Len(monitors)] = abort(@)]
    /\ ModeFails("WaitError")
    /\ UNCHANGED <<env_vars, cli, effects, loop_vars, procs, kill_log>>
    /\ hyprctl' = <<>>

\* The second branch taken although the watcher has not finished.
RaceMonitorUnready ==
    /\ pc = "race"
    /\ pc' = "kill"
    /\ UNCHANGED <<env_vars, loop_vars, main_vars, procs, monitors, kill_log>>
    /\ hyprctl' = <<>>

\* tokio::select!, second branch: the watcher task has finished. The
\* wait_with_output future, and with it the Child, is dropped; the process
\* itself is left running (no kill_on_drop).
RaceMonitor ==
    /\ pc = "race"
    /\ monitors[Len(monitors)].state = "finished"
    /\ pc' = "kill"
    /\ UNCHANGED <<env_vars, loop_vars, main_vars, procs, monitors, kill_log>>
    /\ hyprctl' = <<>>

\* How an invocation of `kill <pid>` can end: the helper cannot be run, it
\* delivers SIGTERM (the pid exists: running, or exited and not yet reaped),
\* or it exits non-zero because the pid is gone.
KillOutcomes(p) ==
    {"spawn_err", "delivered"} \cup
    (IF p.state = "exited" THEN {"nonzero"} ELSE {})

\* The kill helper awaited with `?`: a helper that cannot be run, or that
\* exits non-zero, ends window_mode with an error.
KillSelectorOrFail ==
    /\ pc = "kill"
    /\ \E k \in KillOutcomes(procs[Len(procs)]) :
          /\ kill_log' = Append(kill_log, <<Len(procs), k>>)
          /\ procs' = IF k = "delivered" /\ procs[Len(procs)].state = "running"
                      THEN [procs EXCEPT ![Len(procs)].signalled = TRUE]
                      ELSE procs
          /\ IF k = "delivered"
             THEN /\ outcome' = "Restart"
                  /\ pc' = "snapshot"
                  /\ UNCHANGED <<result, error>>
             ELSE /\ ModeFails("KillError")
                  /\ UNCHANGED outcome
    /\ UNCHANGED <<env_vars, cli, effects, initial_workspace_id, windows,
                   slurp_input, selected_address, monitors>>
    /\ hyprctl' = <<>>

\* The second branch returning instead of falling through to the loop head.
KillSelectorAndReturn ==
    /\ pc = "kill"
    /\ \E k \in KillOutcomes(procs[Len(procs)]) :
          /\ kill_log' = Append(kill_log, <<Len(procs), k>>)
          /\ procs' = IF k = "delivered" /\ procs[Len(procs)].state = "running"
                      THEN [procs EXCEPT ![Len(procs)].signalled = TRUE]
                      ELSE procs
    /\ outcome' = "Restart"
    /\ result' = [kind |-> "None", geom |-> <<>>]
    /\ pc' = "returned"
    /\ UNCHANGED <<env_vars, cli, error, effects, initial_workspace_id, windows,
                   slurp_input, selected_address, monitors>>
    /\ hyprctl' = <<>>

\* The second branch restarting without invoking the kill helper.
RestartWithoutKill ==
    /\ pc = "kill"
    /\ outcome' = "Restart"
    /\ pc' = "snapshot"
    /\ UNCHANGED <<env_vars, main_vars, initial_workspace_id, windows,
                   slurp_input, selected_address, monitors, procs, kill_log>>
    /\ hyprctl' = <<>>

\* let _ = Command::new("kill").arg(slurp_pid.to_string()).status().await;
\* then the end of the loop body: back to the head of the loop.
KillSelector ==
    /\ pc = "kill"
    /\ \E k \in KillOutcomes(procs[Len(procs)]) :
          /\ kill_log' = Append(kill_log, <<Len(procs), k>>)
          /\ procs' = IF k = "delivered" /\ procs[Len(procs)].state = "running"
                      THEN [procs EXCEPT ![Len(procs)].signalled = TRUE]
                      ELSE procs
    /\ outcome' = "Restart"
    /\ pc' = "snapshot"
    /\ UNCHANGED <<env_vars, main_vars, initial_workspace_id, windows,
                   slurp_input, selected_address, monitors>>
    /\ hyprctl' = <<>>

\* let final_geom = get_geometry_for_address(&selected_address).await?;
\* return Ok(Some(final_geom));
Resolve ==
    /\ pc = "resolve"
    /\ \E q \in QueryOutcomes :
          LET r == get_geometry_for_address(q, selected_address) IN
          hyprctl' = <<q>> /\
          IF r.ok
          THEN /\ result' = [kind |-> "Some", geom |-> r.geom]
               /\ outcome' = "Selected"
               /\ pc' = "returned"
               /\ UNCHANGED error
          ELSE /\ ModeFails(r.err)
               /\ UNCHANGED outcome
    /\ UNCHANGED <<env_vars, cli, effects, initial_workspace_id, windows,
                   slurp_input, selected_address, procs, monitors, kill_log>>

\* --------------------------------------------------- main, after the mode
\* The collaborators main invokes for a geometry, in order:
\*   capture_geometry_to_buffer; if cli.save save_buffer_to_file;
\*   if cli.copy copy_buffer_to_clipboard; send_notification
OutputSteps(c) ==
    <<"capture">> \o (IF c.save THEN <<"save">> ELSE <<>>) \o
    (IF c.copy THEN <<"copy">> ELSE <<>>) \o <<"notify">>

\* main running its collaborators whatever window_mode returned.
MainOutputsAlways ==
    /\ pc = "returned"
    /\ \E n \in 1..Len(OutputSteps(cli)), failed \in BOOLEAN :
          /\ failed \/ n = Len(OutputSteps(cli))
          /\ effects' = {OutputSteps(cli)[k] : k \in 1..n}
          /\ pc' = IF failed THEN "exit_err" ELSE "exit_ok"
          /\ error' = IF failed THEN OutputSteps(cli)[n] ELSE error
    /\ UNCHANGED <<env_vars, loop_vars, cli, result, procs, monitors, kill_log>>
    /\ hyprctl' = <<>>

\* if let Some(geom) = geometry { ... } else { println!("Action cancelled.") }
\* Ok(())
\* Each collaborator is awaited with `?`: the first that fails ends main with
\* its error; n is the number of collaborators that get invoked.
MainAfterMode ==
    /\ pc = "returned"
    /\ IF result.kind = "Some"
       THEN \E n \in 1..Len(OutputSteps(cli)), failed \in BOOLEAN :
               /\ failed \/ n = Len(OutputSteps(cli))
               /\ effects' = {OutputSteps(cli)[k] : k \in 1..n}
               /\ pc' = IF failed THEN "exit_err" ELSE "exit_ok"
               /\ error' = IF failed THEN OutputSteps(cli)[n] ELSE error
       ELSE /\ pc' = "exit_ok"
            /\ UNCHANGED <<effects, error>>
    /\ UNCHANGED <<env_vars, loop_vars, cli, result, procs, monitors, kill_log>>
    /\ hyprctl' = <<>>

\* ------------------------------------------------------ specification
Next ==
    \/ WorkspaceChange
    \/ WindowMove
    \/ WindowClose
    \/ WindowOpen
    \/ WindowRehome
    \/ UserSelect
    \/ UserCancel
    \/ ProcTerminate
    \/ MonitorPoll
    \/ MainStart
    \/ SnapshotWorkspace
    \/ SnapshotWindows
    \/ EmptyWaitReturn
    \/ WriteStdin
    \/ RaceSlurp
    \/ RaceSlurpErr
    \/ RaceMonitor
    \/ KillSelector
    \/ Resolve
    \/ MainAfterMode

Spec == Init /\ [][Next]_vars

\* The runtime keeps scheduling: a watcher that is not aborted wakes up every
\* 200 ms and, while the compositor shows an id other than its baseline,
\* eventually gets an answer from hyprctl; a ready branch of the select is
\* taken; an await of the main task that can complete does complete. Rounds
\* of the watcher whose query fails, or shows the baseline id, change nothing
\* in the watcher and are not what the scheduling promises.
Fairness ==
    /\ WF_vars(MonitorPoll /\ monitors' # monitors)
    /\ WF_vars(RaceMonitor)
    /\ WF_vars(KillSelector)
    /\ WF_vars(EmptyWaitReturn)

\* The behaviours checked for progress start on the first workspace with
\* every window shown there; the compositor's steps switch workspaces and
\* hide or move windows from then on.
InitLive ==
    /\ Init
    /\ active = 3
    /\ \A i \in 1..Len(clients) :
          ~clients[i].hidden /\ clients[i].workspace = 3

LiveSpec == InitLive /\ [][Next]_vars /\ Fairness

\* A step of the main task that completes once what it awaits is ready; the
\* wait for the selector failing (RaceSlurpErr) is possible, never due.
MainStep ==
    \/ MainStart
    \/ SnapshotWorkspace
    \/ SnapshotWindows
    \/ WriteStdin
    \/ RaceSlurp
    \/ Resolve
    \/ MainAfterMode

\* The user in front of an open selector picks a box or cancels.
UserActs == UserSelect \/ UserCancel

\* Progress of the whole program with a user who does not walk away.
UserSpec ==
    /\ InitLive
    /\ [][Next]_vars
    /\ Fairness
    /\ WF_vars(MainStep)
    /\ WF_vars(UserActs)

\* ============================================================ properties
CurProc == procs[Len(procs)]
CurMonitor == monitors[Len(monitors)]
Returned == pc \in {"returned", "exit_ok", "exit_err"}

\* ------------------------------------------------------------------ C1
\* C1: every raced attempt produces exactly one of Selected, Cancelled and
\* Restart, and when it ends the loser of the race is gone: after Selected or
\* Cancelled the watcher task is no longer scheduled, after Restart the
\* attempt's selector subprocess is no longer running.
C1_RaceExclusive ==
    (outcome # "none" /\ Len(monitors) > 0 /\ CurMonitor.raced) =>
        /\ outcome \in {"Selected", "Cancelled", "Restart"}
        /\ (outcome = "Selected") = (result.kind = "Some")
        /\ (outcome = "Cancelled") = (result.kind = "None")
        /\ outcome \in {"Selected", "Cancelled"} => CurMonitor.state # "running"
        /\ outcome = "Restart" => CurProc.state # "running"

\* ------------------------------------------------------------------ C2
\* C2: while selector n is raced (so the snapshot was not empty) with
\* baseline b and the active workspace is not b, then, unless the active
\* workspace becomes b again or the selector's branch of the race is taken,
\* the kill helper is eventually invoked on n and the loop is back at
\* Snapshot; and the baseline a Snapshot takes is the workspace active then.
C2_WorkspaceChangeRestarts ==
    /\ \A n \in 1..MaxAttempts, b \in WorkspaceIds :
          (pc = "race" /\ Len(procs) = n /\ initial_workspace_id = b
                       /\ active # b)
          ~> (\/ /\ pc = "snapshot"
                 /\ outcome = "Restart"
                 /\ \E i \in 1..Len(kill_log) : kill_log[i][1] = n
              \/ active = b
              \/ /\ Len(procs) = n
                 /\ pc \in {"resolve", "returned", "exit_ok", "exit_err"})
    /\ [][ (pc = "snapshot" /\ pc' = "windows")
           => initial_workspace_id' = active ]_vars

\* The loop restarted on workspace 4 after selector 1 was signalled while
\* the baseline was 3.
C2_Witness ==
    /\ pc = "windows"
    /\ initial_workspace_id = 4
    /\ Len(monitors) = 1
    /\ monitors[1].initial_id = 3
    /\ monitors[1].raced
    /\ kill_log = << <<1, "delivered">> >>

\* ------------------------------------------------------------------ C3
NoSelectable(all_clients, id) ==
    \A k \in 1..Len(all_clients) :
        all_clients[k].hidden \/ all_clients[k].workspace # id

\* C3: when the clients query of Snapshot answers and no client is visible on
\* the baseline workspace, the iteration spawns no selector and waits in the
\* watcher; the wait is left only for a new Snapshot, and only after the
\* watcher, started with the baseline, has read a different active workspace
\* id; no selector is spawned while it waits.
C3_EmptyWaits ==
    [][ /\ (/\ pc = "windows"
            /\ pc' # "windows"
            /\ error' # "QueryError"
            /\ NoSelectable(clients, initial_workspace_id))
           => (/\ pc' = "empty_wait"
               /\ Len(procs') = Len(procs)
               /\ monitors'[Len(monitors')].initial_id = initial_workspace_id)
        /\ pc = "empty_wait"
           => (/\ Len(procs') = Len(procs)
               /\ pc' \in {"empty_wait", "snapshot"}
               /\ pc' = "snapshot"
                  => (/\ CurMonitor.state = "finished"
                      /\ CurMonitor.current_id \in WorkspaceIds
                      /\ CurMonitor.current_id # initial_workspace_id)) ]_vars

C3_Witness ==
    /\ pc = "snapshot"
    /\ outcome = "Restart"
    /\ ~CurMonitor.raced
    /\ Len(procs) = 0

\* ------------------------------------------------------------------ C4
\* C4: the geometry window_mode returns for a selected address is the
\* position and size the client with that address has in the client list at
\* the moment of the resolution query.
C4_LiveGeometry ==
    [][ (pc = "resolve" /\ pc' = "returned")
        => (/\ result'.kind = "Some"
            /\ \E i \in 1..Len(clients) :
                  /\ clients[i].address = selected_address
                  /\ result'.geom = format_geometry(clients[i].at,
                                                    clients[i].size)) ]_vars

\* The window was moved between snapshot and resolution, and the geometry
\* returned is not the one of the snapshot.
C4_Witness ==
    /\ result.kind = "Some"
    /\ \E i \in 1..Len(windows) :
          /\ windows[i].address = selected_address
          /\ result.geom # format_geometry(windows[i].at, windows[i].size)

\* ------------------------------------------------------------------ C5
\* C5: when no client has the selected address at the resolution query, the
\* attempt ends with an error that leaves window_mode: nothing is returned,
\* neither a geometry nor "no selection", and the loop does not restart.
C5_ClosedWindowFails ==
    [][ (/\ pc = "resolve"
         /\ pc' # "resolve"
         /\ \A i \in 1..Len(clients) : clients[i].address # selected_address)
        => (/\ pc' = "exit_err"
            /\ result'.kind = "Err"
            /\ error' \in {"ResolutionError", "QueryError"}
            /\ outcome' = "none") ]_vars

C5_Witness ==
    /\ pc = "exit_err"
    /\ error = "ResolutionError"
    /\ \A i \in 1..Len(clients) : clients[i].address # selected_address
    /\ \E i \in 1..Len(windows) : windows[i].address = selected_address

\* ------------------------------------------------------------------ C6
\* C6: a selector that wins the race with a non-success exit status makes
\* window_mode return "no selection" without error and without resolving a
\* geometry; main then invokes no collaborator and ends successfully.
C6_CancelIsNotAnError ==
    /\ [](outcome = "Cancelled"
          => (/\ result.kind = "None"
              /\ error = "none"
              /\ selected_address = <<>>
              /\ effects = {}
              /\ pc \in {"returned", "exit_ok"}))
    /\ [][ (/\ pc = "race"
            /\ pc' \notin {"race", "kill"}
            /\ error' # "WaitError"
            /\ CurProc.state = "exited"
            /\ ~CurProc.success)
           => (pc' = "returned" /\ outcome' = "Cancelled") ]_vars
    /\ [][ (pc = "returned" /\ result.kind = "None") => pc' = "exit_ok" ]_vars

C6_Witness == pc = "exit_ok" /\ outcome = "Cancelled" /\ Len(procs) > 0

\* ------------------------------------------------------------------ C7
\* C7: window_mode returns a value only as Selected or Cancelled; a Restart
\* never returns and leaves the loop at Snapshot.
C7_RestartNeverReturns ==
    /\ outcome = "Restart" => (pc = "snapshot" /\ result = NoResult)
    /\ pc \in {"returned", "exit_ok"} => outcome \in {"Selected", "Cancelled"}
    /\ Returned => outcome # "Restart"

\* window_mode returned in an iteration that followed a Restart.
C7_Witness == pc = "returned" /\ Len(monitors) > 1 /\ Len(kill_log) > 0

\* ------------------------------------------------------------------ C8
\* C8: a watcher completes only on a successful query whose id differs from
\* its baseline; it never ends with an error.
C8_WatcherReturnsOnChange ==
    /\ [](\A i \in 1..Len(monitors) :
            /\ monitors[i].state \in {"running", "finished", "aborted"}
            /\ monitors[i].state = "finished"
               => (/\ monitors[i].current_id \in WorkspaceIds
                   /\ monitors[i].current_id # monitors[i].initial_id))
    /\ [][ \A i \in 1..Len(monitors) :
             (monitors[i].state = "running" /\ monitors'[i].state = "finished")
             => (active # monitors[i].initial_id
                 /\ monitors'[i].current_id = active) ]_vars

C8_Witness ==
    \E i \in 1..Len(monitors) :
        monitors[i].state = "finished" /\ monitors[i].raced

\* ------------------------------------------------------------------ C9
\* C9: however the kill helper ends, window_mode does not fail: from the
\* kill step the loop goes to Snapshot, with no error and nothing returned.
C9_KillFailureIgnored ==
    [][ pc = "kill"
        => (/\ pc' \in {"kill", "snapshot"}
            /\ error' = "none"
            /\ result' = NoResult
            /\ pc' = "snapshot" => outcome' = "Restart") ]_vars

C9_Witness ==
    /\ pc = "snapshot"
    /\ Len(kill_log) > 0
    /\ kill_log[Len(kill_log)][2] # "delivered"

\* ------------------------------------------------------------------ C10
\* ws is all_clients restricted to the visible clients of workspace id, in
\* the order of all_clients.
IsFiltered(ws, all_clients, id) ==
    LET idx == {k \in 1..Len(all_clients) :
                   ~all_clients[k].hidden /\ all_clients[k].workspace = id} IN
    /\ Len(ws) = Cardinality(idx)
    /\ \A k \in idx : ws[Cardinality({j \in idx : j <= k})] = all_clients[k]

\* C10: the snapshot is exactly the visible clients of the baseline workspace
\* in reported order, and the target list fed to the selector has one line
\* per snapshot window, in the same order, labelled with its address.
C10_SnapshotIsFiltered ==
    /\ [][ (pc = "windows" /\ pc' # "windows" /\ error' # "QueryError")
           => IsFiltered(windows', clients, initial_workspace_id) ]_vars
    /\ [](pc \in {"write", "race", "kill", "resolve"}
          => (/\ Len(SlurpLines(slurp_input)) = Len(windows)
              /\ \A i \in 1..Len(windows) :
                    /\ SlurpLines(slurp_input)[i] = format_target(windows[i])
                    /\ SlurpLabel(SlurpLines(slurp_input)[i])
                          = windows[i].address))

\* A client of the baseline workspace was left out because it is hidden.
C10_Witness ==
    /\ pc = "write"
    /\ Len(windows) = 1
    /\ \E i \in 1..Len(clients) :
          clients[i].hidden /\ clients[i].workspace = initial_workspace_id

\* ------------------------------------------------------------------ C11
\* A hyprctl run that did not give a usable answer with a zero exit status.
QueryFailed(q) == ~q.invoked \/ ~q.exit_ok \/ ~q.parses

\* C11: a compositor query made by the loop itself (active workspace and
\* client list at the snapshot, client list at resolution) whose hyprctl
\* could not be run, exited with a non-zero status, or printed something that
\* does not parse, ends window_mode with a query error; that step spawns no
\* selector and returns no geometry.
C11_QueryFailureAborts ==
    [][ \A q \in QueryOutcomes :
           (/\ pc \in {"snapshot", "windows", "resolve"}
            /\ pc' # pc
            /\ hyprctl' = <<q>>
            /\ QueryFailed(q))
           => (/\ pc' = "exit_err"
               /\ error' = "QueryError"
               /\ result'.kind = "Err"
               /\ procs' = procs) ]_vars

\* ------------------------------------------------------------------ C12
\* The desktop no longer is what the snapshot of the current attempt showed:
\* the active workspace is not the baseline, a visible window of the baseline
\* workspace is missing from the snapshot, or a snapshot window is gone.
SnapshotStale ==
    \/ active # initial_workspace_id
    \/ \E i \in 1..Len(clients) :
          /\ ~clients[i].hidden
          /\ clients[i].workspace = initial_workspace_id
          /\ \A k \in 1..Len(windows) : windows[k].address # clients[i].address
    \/ \E k \in 1..Len(windows) :
          \A i \in 1..Len(clients) : clients[i].address # windows[k].address

\* C12: while an attempt is in progress (selector open, or blocked on an
\* empty workspace) every change of what the target list depends on, a window
\* appearing on the workspace, a snapshot window closing, the active
\* workspace changing, eventually ends the attempt: the loop restarts from
\* the snapshot, unless the selector completes first (or the change is undone
\* before anything could see it).
C12_ChangeRestarts ==
    (pc \in {"race", "empty_wait"} /\ SnapshotStale)
       ~> (pc \notin {"race", "empty_wait"} \/ ~SnapshotStale)

C14_WatcherAfterWrite ==
    /\ [][ (Len(monitors') > Len(monitors) /\ monitors'[Len(monitors')].raced)
           => (/\ pc = "write"
               /\ Len(monitors') = Len(monitors) + 1
               /\ Len(procs) >= 1
               /\ Len(procs') = Len(procs)
               /\ CurProc.stdin = <<>> /\ ~CurProc.stdin_closed
               /\ procs'[Len(procs')].stdin = slurp_input
               /\ slurp_input = format_slurp_input(windows)
               /\ procs'[Len(procs')].stdin_closed) ]_vars
    /\ [][ error' \in {"SpawnError", "WriteError"}
           => (/\ monitors' = monitors
               /\ \A i \in 1..Len(monitors) : monitors[i].state # "running")
       ]_vars

\* A watcher races a selector that holds the whole target list.
C14_Witness ==
    /\ pc = "race"
    /\ CurMonitor.raced /\ CurMonitor.state = "running"
    /\ Len(windows) = 2
    /\ CurProc.stdin = format_slurp_input(windows)
    /\ CurProc.stdin_closed

\* ------------------------------------------------------------------ C15
\* C15: at most one watcher is scheduled at any moment, and it is the one
\* started last: every earlier watcher has finished or been aborted before
\* the next one (spawned for a race, or awaited in the empty-window path) is
\* started; once window_mode has returned no watcher is scheduled.
C15_OneWatcher ==
    /\ \A i \in 1..Len(monitors) :
          monitors[i].state = "running" => i = Len(monitors)
    /\ Returned => \A i \in 1..Len(monitors) : monitors[i].state # "running"

\* window_mode has returned after two watchers: the first finished and made
\* the loop restart, the second was aborted when the selector completed.
C15_Witness ==
    /\ Returned
    /\ Len(monitors) = 2
    /\ monitors[1].state = "finished"
    /\ monitors[2].state = "aborted"

\* ------------------------------------------------------------------ C16
\* C16 as stated: when the selector has already exited at the moment the
\* race is decided, also when the watcher has finished too, the attempt ends
\* as Selected or Cancelled according to the exit status, never as Restart.
C16_ExitedSelectorWins ==
    [][ (pc = "race" /\ pc' # "race" /\ CurProc.state = "exited")
        => pc' # "kill" ]_vars

\* C16, amended: when the selector has exited and the watcher has not
\* finished at the moment the race is decided, the selector's branch is the
\* one taken: the attempt goes on to resolution after a successful exit, ends
\* as Cancelled after any other exit, or ends with the wait error, never as
\* Restart. When both are ready either branch may be taken.
C16_OnlyReadyBranchWins ==
    [][ (/\ pc = "race" /\ pc' # "race"
         /\ CurProc.state = "exited"
         /\ CurMonitor.state # "finished")
        => (/\ pc' \in {"resolve", "returned", "exit_err"}
            /\ pc' = "resolve" => CurProc.success
            /\ pc' = "returned" => (~CurProc.success /\ outcome' = "Cancelled")
            /\ pc' = "exit_err" => error' = "WaitError"
            /\ outcome' # "Restart"
            /\ CurMonitor'.state = "aborted") ]_vars

\* The selector's branch was taken on a successful exit while the watcher was
\* still polling: the watcher is aborted and the selection is being resolved.
C16_Witness ==
    /\ pc = "resolve"
    /\ CurProc.state = "exited" /\ CurProc.success
    /\ CurMonitor.state = "aborted"

\* ------------------------------------------------------------------ C17
\* The selector subprocesses that are alive.
RunningProcs == {p \in 1..Len(procs) : procs[p].state = "running"}

\* C17: at most one selector subprocess spawned by window_mode is alive at
\* any moment; after the watcher has won a race the selector of that attempt
\* has exited before the next attempt spawns its own, also when the
\* termination signal could not be delivered or has not been acted on yet.
C17_OneSelectorAlive ==
    /\ Cardinality(RunningProcs) <= 1
    /\ \A p \in RunningProcs : p = Len(procs)

\* ------------------------------------------------------------------ C18
\* C18: whenever window_mode has returned, with a geometry, with nothing, or
\* with an error raised after the selector was spawned (writing the target
\* list, obtaining the process id, waiting for the output), no selector
\* subprocess it spawned is still running.
C18_NoSelectorAfterReturn ==
    Returned => RunningProcs = {}

\* ------------------------------------------------------------------ C19
\* C19 as stated: a geometry returned as Selected belongs to a client that,
\* at the moment of the resolution query, is not hidden and is on the
\* baseline workspace of the attempt.
C19_SelectableAtResolution ==
    [][ (pc = "resolve" /\ pc' = "returned")
        => \E i \in 1..Len(clients) :
              /\ clients[i].address = selected_address
              /\ ~clients[i].hidden
              /\ clients[i].workspace = initial_workspace_id
              /\ result' = [kind |-> "Some",
                            geom |-> format_geometry(clients[i].at,
                                                     clients[i].size)] ]_vars

\* C19, amended: a geometry returned as Selected belongs to a window that was
\* selectable when the snapshot of the attempt was taken (in the snapshot,
\* not hidden, on the baseline workspace) and that still exists at
\* resolution; by then it may be hidden or on another workspace.
C19_SelectableAtSnapshot ==
    [][ (pc = "resolve" /\ pc' = "returned")
        => (/\ outcome' = "Selected"
            /\ \E k \in 1..Len(windows) :
                  /\ windows[k].address = selected_address
                  /\ ~windows[k].hidden
                  /\ windows[k].workspace = initial_workspace_id
            /\ \E i \in 1..Len(clients) :
                  /\ clients[i].address = selected_address
                  /\ result' = [kind |-> "Some",
                                geom |-> format_geometry(clients[i].at,
                                                         clients[i].size)])
      ]_vars

\* A geometry was returned for a window that, since the snapshot, has been
\* hidden or sent to another workspace.
C19_Witness ==
    /\ pc = "returned"
    /\ result.kind = "Some"
    /\ \E i \in 1..Len(clients) :
          /\ clients[i].address = selected_address
          /\ (clients[i].hidden \/ clients[i].workspace # initial_workspace_id)
          /\ result.geom = format_geometry(clients[i].at, clients[i].size)

\* ------------------------------------------------------------------ C20
\* The active workspace shows at least one selectable window.
HasSelectable == ~is_empty(visible_clients(clients, active))

\* The model stops taking snapshots after MaxAttempts attempts.
AttemptsExhausted == pc = "snapshot" /\ Len(monitors) >= MaxAttempts

\* C20: with fair scheduling, queries that get answered, and a user who
\* eventually picks or cancels in a selector that stays open, if from some
\* point on the active workspace stops changing and has a selectable window,
\* window_mode eventually returns (a geometry, nothing, or a fatal error)
\* instead of waiting or restarting forever.
C20_Terminates ==
    <>[]HasSelectable => <>(Returned \/ AttemptsExhausted)

====
